---- MODULE Spec2Model ----
(***************************************************************************)
(* A model of the file-backed note/document store of src/file_storage.py   *)
(* (class FileStorage): the metadata index kept in one JSON file, the      *)
(* content files "<id>.txt" of the two kinds, and the attachment files of  *)
(* the two upload directories.                                             *)
(*                                                                         *)
(* Every method of FileStorage is an operator of the same name.  It takes  *)
(* the on-disk state fs the method finds, the method's arguments, the      *)
(* values its calls of datetime.utcnow() and uuid.uuid4() return and the   *)
(* I/O step that fails (if any), and yields the on-disk state the method   *)
(* leaves together with what it returns or raises.  The actions apply the  *)
(* operators to the state variables.                                       *)
(***************************************************************************)
EXTENDS Integers, Sequences, FiniteSets, TLC

VARIABLES
    metadata_file,      \* the file at self.metadata_file
    temp_file,          \* the file at self.metadata_file + '.tmp'
    notes_dir,          \* self.notes_dir: file name -> bytes
    docs_dir,           \* self.docs_dir: file name -> bytes
    notes_uploads_dir,  \* self.notes_uploads_dir: file name -> size in bytes
    docs_uploads_dir,   \* self.docs_uploads_dir: file name -> size in bytes
    now,                \* the last value datetime.utcnow() returned
    last,               \* the last call: its name, arguments and outcome
    steps,              \* the number of calls made so far
    created,            \* per kind, the number of create calls made so far
    issued,             \* per kind, the ids create has returned so far
    pc,                 \* concurrent workers: each worker's position
    loc                 \* concurrent workers: each worker's local variables

vars == <<metadata_file, temp_file, notes_dir, docs_dir, notes_uploads_dir,
          docs_uploads_dir, now, last, steps, created, issued, pc, loc>>

disk == <<metadata_file, temp_file, notes_dir, docs_dir, notes_uploads_dir,
          docs_uploads_dir>>

(***************************************************************************)
(* Bounds of the model.                                                    *)
(***************************************************************************)
MaxOps == 3
MaxTime == 1
MaxFaultOps == 2
MaxWorkerOps == 1

(***************************************************************************)
(* Values.                                                                 *)
(***************************************************************************)
None == "None"
CR == "CR"
LF == "LF"

Kinds == {"note", "doc"}
Other(kind) == IF kind = "note" THEN "doc" ELSE "note"

Min(a, b) == IF a < b THEN a ELSE b
SetMax(S) == CHOOSE x \in S : \A y \in S : y <= x

\* A directory: a function from the names of its files to their contents.
EmptyDir == <<>>
\* A write that leaves only the file written.
Put_only(dir, name, val) == [x \in {name} |-> val]

Put(dir, name, val) ==
    [x \in (DOMAIN dir) \cup {name} |-> IF x = name THEN val ELSE dir[x]]
Unlink(dir, name) == [x \in (DOMAIN dir) \ {name} |-> dir[x]]

RECURSIVE SumOver(_, _)
SumOver(f, S) ==
    IF S = {} THEN 0
    ELSE LET x == CHOOSE y \in S : TRUE IN f[x] + SumOver(f, S \ {x})

\* "for x in items: if x['id'] == int(id): ..." acts on the first match: its
\* index, 0 when there is none.
IndexOfId(items, id) ==
    IF \E i \in 1..Len(items) : items[i].id = id
    THEN CHOOSE i \in 1..Len(items) :
            items[i].id = id /\ \A j \in 1..(i - 1) : items[j].id # id
    ELSE 0

\* The first attachment whose stored file name is filename, 0 when none.
IndexOfAttachment(attachments, filename) ==
    IF \E i \in 1..Len(attachments) : attachments[i].filename = filename
    THEN CHOOSE i \in 1..Len(attachments) :
            attachments[i].filename = filename
            /\ \A j \in 1..(i - 1) : attachments[j].filename # filename
    ELSE 0

\* list.remove(x): the list without its first element equal to x.
RemoveAt(seq, i) == SubSeq(seq, 1, i - 1) \o SubSeq(seq, i + 1, Len(seq))
\* list.remove that removes nothing.
ListRemove_keep(seq, x) == seq

ListRemove(seq, x) ==
    RemoveAt(seq, CHOOSE i \in 1..Len(seq) :
                     seq[i] = x /\ \A j \in 1..(i - 1) : seq[j] # x)

(***************************************************************************)
(* The metadata file and its temporary file.  A file that exists holds the *)
(* serialization of an index, complete (full) or cut short: after          *)
(* open(path, 'w') it holds zero bytes, the prefix of every serialization. *)
(***************************************************************************)
EmptyIndex == [notes |-> <<>>, docs |-> <<>>]
NoFile == [exists |-> FALSE, idx |-> EmptyIndex, full |-> FALSE]
Serialized(metadata) == [exists |-> TRUE, idx |-> metadata, full |-> TRUE]
Partial(metadata) == [exists |-> TRUE, idx |-> metadata, full |-> FALSE]
Truncated == Partial(EmptyIndex)

\* The on-disk state as one value.
FS == [metadata_file |-> metadata_file, temp_file |-> temp_file,
       notes_dir |-> notes_dir, docs_dir |-> docs_dir,
       notes_uploads_dir |-> notes_uploads_dir,
       docs_uploads_dir |-> docs_uploads_dir]

\* One list for both kinds.
Key_default(item_type) == "notes"

\* item_type + 's'
Key(item_type) == IF item_type = "note" THEN "notes" ELSE "docs"

(***************************************************************************)
(* Text files.  open(path, 'w', encoding='utf-8') translates each "\n"     *)
(* written to os.linesep; open(path, 'r', encoding='utf-8') reads with     *)
(* universal newlines: "\r\n" and a lone "\r" both come back as "\n".      *)
(* The model is of a POSIX host, where os.linesep is "\n".                 *)
(***************************************************************************)
linesep == <<LF>>

RECURSIVE WriteText(_)
WriteText(s) ==
    IF s = <<>> THEN <<>>
    ELSE (IF Head(s) = LF THEN linesep ELSE <<Head(s)>>) \o WriteText(Tail(s))

RECURSIVE ReadText(_)
ReadText(b) ==
    IF b = <<>> THEN <<>>
    ELSE IF Head(b) = CR
         THEN IF Len(b) >= 2 /\ b[2] = LF
              THEN <<LF>> \o ReadText(Tail(Tail(b)))
              ELSE <<LF>> \o ReadText(Tail(b))
         ELSE <<Head(b)>> \o ReadText(Tail(b))

\* The name of a content file, f"{id}.txt".
TxtName(id) == <<id, ".txt">>

(***************************************************************************)
(* The I/O step of a call that fails.  step names the step ("none": every  *)
(* step succeeds); rm tells whether the os.remove of the temporary file in *)
(* the handler of _save_metadata succeeds.                                 *)
(***************************************************************************)
NoFault == [step |-> "none", rm |-> TRUE]

SaveSteps == {"save_makedirs", "save_open", "save_dump", "save_replace"}

\* What a method leaves and returns: the on-disk state, the step at which it
\* raised to its caller ("none": it returned), its boolean result (for
\* create: whether an entity came back), the entity it returned, its
\* message, the number of datetime.utcnow() calls it made, and how its call
\* of _save_metadata ended ("none": it made none, "ok", or the failing step).
NotFound == [found |-> FALSE]
Returns(fs, ok, entity, msg, reads) ==
    [fs |-> fs, raised |-> "none", ok |-> ok, entity |-> entity, msg |-> msg,
     reads |-> reads, save |-> "none"]
Raises(fs, step, reads) ==
    [fs |-> fs, raised |-> step, ok |-> FALSE, entity |-> NotFound, msg |-> "",
     reads |-> reads, save |-> "none"]

(***************************************************************************)
(* FileStorage._load_metadata, _save_metadata, get_next_id                 *)
(***************************************************************************)
\* A load that takes whatever the file holds.
_load_metadata_lenient(fs) ==
    IF fs.metadata_file.exists THEN fs.metadata_file.idx ELSE EmptyIndex

_load_metadata(fs) ==
    IF fs.metadata_file.exists /\ fs.metadata_file.full
    THEN fs.metadata_file.idx
    ELSE EmptyIndex

\* A handler that leaves the temporary file.
SaveHandler_keep(fs, flt) == fs

\* The handler of _save_metadata: the temporary file is removed if it exists
\* and the removal succeeds; the exception is raised again.
SaveHandler(fs, flt) ==
    IF fs.temp_file.exists /\ flt.rm
    THEN [fs EXCEPT !.temp_file = NoFile]
    ELSE fs

\* [fs, raised]: the state left, and the failing step ("none": saved).
_save_metadata(fs, metadata, flt) ==
    CASE flt.step \in {"save_makedirs", "save_open"} ->
            [fs |-> SaveHandler(fs, flt), raised |-> flt.step]
      [] flt.step = "save_dump" ->
            [fs |-> SaveHandler([fs EXCEPT !.temp_file = Partial(metadata)], flt),
             raised |-> flt.step]
      [] flt.step = "save_replace" ->
            [fs |-> SaveHandler([fs EXCEPT !.temp_file = Serialized(metadata)], flt),
             raised |-> flt.step]
      [] OTHER ->
            [fs |-> [fs EXCEPT !.metadata_file = Serialized(metadata),
                               !.temp_file = NoFile],
             raised |-> "none"]

\* A method's call of _save_metadata stands in no try block: what it raises
\* leaves the method.
AfterSave(sv, returned, reads) ==
    IF sv.raised # "none"
    THEN [Raises(sv.fs, sv.raised, reads) EXCEPT !.save = sv.raised]
    ELSE [returned EXCEPT !.save = "ok"]

\* An end of a mutating method that returns without saving.
SaveAndReturn_nosave(fs, metadata, flt, ok, msg, reads) ==
    Returns(fs, ok, NotFound, msg, reads)

\* The end of a mutating method: save, then return ok.
SaveAndReturn(fs, metadata, flt, ok, msg, reads) ==
    LET sv == _save_metadata(fs, metadata, flt)
    IN  AfterSave(sv, Returns(sv.fs, ok, NotFound, msg, reads), reads)

\* An allocation that also counts the content files on disk.
get_next_id_scan(fs, item_type) ==
    LET items == _load_metadata(fs)[Key(item_type)]
        dir == IF item_type = "note" THEN fs.notes_dir ELSE fs.docs_dir
        used == {items[i].id : i \in 1..Len(items)} \cup {n[1] : n \in DOMAIN dir}
    IN  IF used = {} THEN 1 ELSE SetMax(used) + 1

\* The largest id, not the one after it.
get_next_id_noinc(fs, item_type) ==
    LET items == _load_metadata(fs)[Key(item_type)]
    IN  IF items = <<>> THEN 1
        ELSE SetMax({items[i].id : i \in 1..Len(items)})

get_next_id(fs, item_type) ==
    LET items == _load_metadata(fs)[Key(item_type)]
    IN  IF items = <<>> THEN 1
        ELSE SetMax({items[i].id : i \in 1..Len(items)}) + 1

(***************************************************************************)
(* The value objects Note and Document, as get and list assemble them.     *)
(***************************************************************************)
Note(m, content) ==
    [found |-> TRUE, id |-> m.id, title |-> m.title, content |-> content,
     category |-> m.category, user_id |-> m.user_id,
     attachments |-> m.attachments, view_count |-> m.view_count,
     created_at |-> m.created_at, updated_at |-> m.updated_at,
     updated_by |-> m.updated_by]

Document(m, content) ==
    [found |-> TRUE, id |-> m.id, title |-> m.title, content |-> content,
     category |-> m.category, user_id |-> m.user_id,
     attachments |-> m.attachments,
     created_at |-> m.created_at, updated_at |-> m.updated_at]

\* list.sort(key=lambda x: x.updated_at, reverse=True): stable, so entities
\* with equal updated_at keep their order.  x, which followed every element
\* of sorted in the list, goes behind the elements that are not older.
InsertByUpdatedAt_strict(sorted, x) ==
    LET k == Cardinality({i \in 1..Len(sorted) :
                            sorted[i].updated_at > x.updated_at})
    IN  SubSeq(sorted, 1, k) \o <<x>> \o SubSeq(sorted, k + 1, Len(sorted))

InsertByUpdatedAt(sorted, x) ==
    LET k == Cardinality({i \in 1..Len(sorted) :
                            sorted[i].updated_at >= x.updated_at})
    IN  SubSeq(sorted, 1, k) \o <<x>> \o SubSeq(sorted, k + 1, Len(sorted))

RECURSIVE SortByUpdatedAtDesc(_)
SortByUpdatedAtDesc(seq) ==
    IF seq = <<>> THEN <<>>
    ELSE InsertByUpdatedAt(SortByUpdatedAtDesc(SubSeq(seq, 1, Len(seq) - 1)),
                           seq[Len(seq)])

\* "if category and category != 'all' and meta.get('category') != category:
\* continue": None and the empty string are falsy.
Truthy(x) == x # None /\ x # ""
PassesCategory(m, category) ==
    ~(Truthy(category) /\ category # "all" /\ m.category # category)

(***************************************************************************)
(* Notes                                                                   *)
(***************************************************************************)
\* A get that does not look for the content file: a record without one
\* comes back with empty content.
get_note_any(fs, note_id) ==
    LET notes == _load_metadata(fs).notes
        i == IndexOfId(notes, note_id)
    IN  IF i = 0 THEN NotFound
        ELSE Note(notes[i],
                  IF notes[i].filename \in DOMAIN fs.notes_dir
                  THEN ReadText(fs.notes_dir[notes[i].filename]) ELSE <<>>)

get_note(fs, note_id) ==
    LET notes == _load_metadata(fs).notes
        hit == {i \in 1..Len(notes) :
                  notes[i].id = note_id /\ notes[i].filename \in DOMAIN fs.notes_dir}
    IN  IF hit = {} THEN NotFound
        ELSE LET i == CHOOSE j \in hit : \A k \in hit : j <= k
             IN  Note(notes[i], ReadText(fs.notes_dir[notes[i].filename]))

get_all_notes(fs, category) ==
    LET notes == _load_metadata(fs).notes
        kept == SelectSeq(notes, LAMBDA m : PassesCategory(m, category)
                                            /\ m.filename \in DOMAIN fs.notes_dir)
    IN  SortByUpdatedAtDesc(
            [i \in 1..Len(kept) |-> Note(kept[i], ReadText(fs.notes_dir[kept[i].filename]))])

get_note_categories(fs) ==
    LET notes == _load_metadata(fs).notes
    IN  {notes[i].category : i \in 1..Len(notes)}

\* A create on a store whose notes_dir and docs_dir are one directory: the
\* content file is found in both.
create_note_one_dir(fs, title, content, category, user_id, clk, flt) ==
    LET note_id == get_next_id(fs, "note")
        filename == TxtName(note_id)
        fs1 == [fs EXCEPT !.notes_dir = Put(@, filename, WriteText(content)),
                          !.docs_dir = Put(@, filename, WriteText(content))]
        metadata == _load_metadata(fs1)
        note_meta == [id |-> note_id, title |-> title, filename |-> filename,
                      category |-> category, user_id |-> user_id,
                      attachments |-> <<>>, view_count |-> 0,
                      created_at |-> clk[1], updated_at |-> clk[2],
                      updated_by |-> None]
        sv == _save_metadata(
                  fs1, [metadata EXCEPT !.notes = Append(@, note_meta)], flt)
        e == get_note(sv.fs, note_id)
    IN  AfterSave(sv, Returns(sv.fs, e.found, e, "", 2), 2)

create_note(fs, title, content, category, user_id, clk, flt) ==
    LET note_id == get_next_id(fs, "note")
        filename == TxtName(note_id)
    IN  IF flt.step = "content_open" THEN Raises(fs, flt.step, 0)
        ELSE IF flt.step = "content_write"
        THEN Raises([fs EXCEPT !.notes_dir = Put(@, filename, <<>>)], flt.step, 0)
        ELSE
        LET fs1 == [fs EXCEPT !.notes_dir = Put(@, filename, WriteText(content))]
            metadata == _load_metadata(fs1)
            note_meta == [id |-> note_id, title |-> title, filename |-> filename,
                          category |-> category, user_id |-> user_id,
                          attachments |-> <<>>, view_count |-> 0,
                          created_at |-> clk[1], updated_at |-> clk[2],
                          updated_by |-> None]
            sv == _save_metadata(
                      fs1, [metadata EXCEPT !.notes = Append(@, note_meta)], flt)
            e == get_note(sv.fs, note_id)
        IN  AfterSave(sv, Returns(sv.fs, e.found, e, "", 2), 2)

\* An increment that counts a view on every note.
increment_note_view_count_all(fs, note_id, flt) ==
    LET metadata == _load_metadata(fs)
        i == IndexOfId(metadata.notes, note_id)
    IN  IF i = 0 THEN Returns(fs, FALSE, NotFound, "", 0)
        ELSE SaveAndReturn(
                 fs,
                 [metadata EXCEPT !.notes =
                     [j \in 1..Len(@) |-> [@[j] EXCEPT !.view_count = @ + 1]]],
                 flt, TRUE, "", 0)

increment_note_view_count(fs, note_id, flt) ==
    LET metadata == _load_metadata(fs)
        i == IndexOfId(metadata.notes, note_id)
    IN  IF i = 0 THEN Returns(fs, FALSE, NotFound, "", 0)
        ELSE SaveAndReturn(
                 fs, [metadata EXCEPT !.notes[i].view_count = @ + 1], flt,
                 TRUE, "", 0)

\* req holds the arguments that are not None, under their names.
update_note(fs, note_id, req, clk, flt) ==
    LET metadata == _load_metadata(fs)
        i == IndexOfId(metadata.notes, note_id)
    IN  IF i = 0 THEN Returns(fs, FALSE, NotFound, "", 0)
        ELSE
        LET m0 == metadata.notes[i]
            m1 == IF "title" \in DOMAIN req THEN [m0 EXCEPT !.title = req.title] ELSE m0
            m2 == IF "category" \in DOMAIN req
                  THEN [m1 EXCEPT !.category = req.category] ELSE m1
            writes == "content" \in DOMAIN req
            updated == "title" \in DOMAIN req \/ "category" \in DOMAIN req \/ writes
        IN  IF writes /\ flt.step = "content_open" THEN Raises(fs, flt.step, 0)
            ELSE IF writes /\ flt.step = "content_write"
            THEN Raises([fs EXCEPT !.notes_dir = Put(@, m0.filename, <<>>)], flt.step, 0)
            ELSE IF ~updated THEN Returns(fs, FALSE, NotFound, "", 0)
            ELSE
            LET fs1 == IF writes
                       THEN [fs EXCEPT !.notes_dir =
                                 Put(@, m0.filename, WriteText(req.content))]
                       ELSE fs
                m3 == [m2 EXCEPT !.updated_at = clk[1],
                                 !.updated_by = IF "user_id" \in DOMAIN req
                                                THEN req.user_id ELSE @]
            IN  SaveAndReturn(fs1, [metadata EXCEPT !.notes[i] = m3], flt,
                              TRUE, "", 1)

\* The attachment files of an entity that exist, removed one after the other.
\* A delete that leaves the attachment files.
UnlinkAll_keep(dir, attachments) == dir

UnlinkAll(dir, attachments) ==
    [x \in (DOMAIN dir) \ {attachments[i].filename : i \in 1..Len(attachments)}
        |-> dir[x]]

delete_note(fs, note_id, flt) ==
    LET metadata == _load_metadata(fs)
        i == IndexOfId(metadata.notes, note_id)
    IN  IF i = 0 THEN Returns(fs, FALSE, NotFound, "", 0)
        ELSE
        LET note_meta == metadata.notes[i]
            hasFile == note_meta.filename \in DOMAIN fs.notes_dir
            fs1 == [fs EXCEPT !.notes_dir = Unlink(@, note_meta.filename)]
            present == {j \in 1..Len(note_meta.attachments) :
                          note_meta.attachments[j].filename \in DOMAIN fs.notes_uploads_dir}
            fs2 == [fs1 EXCEPT !.notes_uploads_dir = UnlinkAll(@, note_meta.attachments)]
        IN  IF hasFile /\ flt.step = "remove_content" THEN Raises(fs, flt.step, 0)
            ELSE IF present # {} /\ flt.step = "remove_attachment"
            THEN Raises(fs1, flt.step, 0)
            ELSE SaveAndReturn(
                     fs2, [metadata EXCEPT !.notes = ListRemove(@, note_meta)], flt,
                     TRUE, "", 0)

(***************************************************************************)
(* Storage accounting and the quota.  Sizes are counted in bytes; the      *)
(* quota of 2*1024*1024*1024 bytes is scaled down to max_storage so that   *)
(* the few small files of a bounded run can reach it.                      *)
(***************************************************************************)
max_storage == 8

get_total_storage_size(fs) ==
    SumOver(fs.notes_uploads_dir, DOMAIN fs.notes_uploads_dir)
    + SumOver(fs.docs_uploads_dir, DOMAIN fs.docs_uploads_dir)
    + SumOver([n \in DOMAIN fs.notes_dir |-> Len(fs.notes_dir[n])], DOMAIN fs.notes_dir)
    + SumOver([n \in DOMAIN fs.docs_dir |-> Len(fs.docs_dir[n])], DOMAIN fs.docs_dir)

\* (bool, message): the boolean; the message is "OK" exactly when it is TRUE.
check_storage_available(fs, file_size, limit) ==
    ~(get_total_storage_size(fs) + file_size > limit)

\* werkzeug.utils.secure_filename and os.path.splitext on the file names
\* the model uploads.
secure_filename(name) ==
    CASE name = "../x.txt" -> "x.txt"
      [] name = "/" -> ""
      [] OTHER -> name

splitext(name) ==
    CASE name = "x.txt" -> ".txt"
      [] name = "report.pdf" -> ".pdf"
      [] OTHER -> ""

\* f"{id}_{uuid.uuid4().hex[:8]}{file_ext}"
UniqueName(id, hex, ext) == <<id, hex, ext>>

add_note_attachment(fs, note_id, uploaded_file, hex, clk, flt) ==
    IF ~check_storage_available(fs, uploaded_file.size, max_storage)
    THEN Returns(fs, FALSE, NotFound, "quota", 0)
    ELSE
    LET metadata == _load_metadata(fs)
        i == IndexOfId(metadata.notes, note_id)
        original_filename == secure_filename(uploaded_file.filename)
        unique_filename == UniqueName(note_id, hex, splitext(original_filename))
    IN  IF i = 0 THEN Returns(fs, FALSE, NotFound, "not found", 0)
        ELSE IF original_filename = "" THEN Returns(fs, FALSE, NotFound, "invalid name", 0)
        ELSE IF flt.step = "upload_save" THEN Raises(fs, flt.step, 0)
        ELSE
        LET fs1 == [fs EXCEPT !.notes_uploads_dir =
                        Put(@, unique_filename, uploaded_file.size)]
            att == [filename |-> unique_filename,
                    original_filename |-> original_filename,
                    uploaded_at |-> clk[1]]
        IN  SaveAndReturn(
                fs1,
                [metadata EXCEPT !.notes[i].attachments = Append(@, att),
                                 !.notes[i].updated_at = clk[2]],
                flt, TRUE, "OK", 2)

\* The first note with this id that holds an attachment of this stored
\* name: the outer loop goes on when a note with the id has none.
delete_note_attachment(fs, note_id, attachment_filename, clk, flt) ==
    LET metadata == _load_metadata(fs)
        notes == metadata.notes
        hit == {i \in 1..Len(notes) :
                  notes[i].id = note_id
                  /\ IndexOfAttachment(notes[i].attachments, attachment_filename) # 0}
    IN  IF hit = {} THEN Returns(fs, FALSE, NotFound, "", 0)
        ELSE
        LET i == CHOOSE j \in hit : \A k \in hit : j <= k
            a == IndexOfAttachment(notes[i].attachments, attachment_filename)
            \* os.remove inside try/except: a failure is printed and swallowed
            fs1 == IF flt.step = "remove_attachment" THEN fs
                   ELSE [fs EXCEPT !.notes_uploads_dir = Unlink(@, attachment_filename)]
        IN  SaveAndReturn(
                fs1,
                [metadata EXCEPT !.notes[i].attachments = RemoveAt(@, a),
                                 !.notes[i].updated_at = clk[1]],
                flt, TRUE, "", 1)

(***************************************************************************)
(* Documents                                                               *)
(***************************************************************************)
get_doc(fs, doc_id) ==
    LET docs == _load_metadata(fs).docs
        hit == {i \in 1..Len(docs) :
                  docs[i].id = doc_id /\ docs[i].filename \in DOMAIN fs.docs_dir}
    IN  IF hit = {} THEN NotFound
        ELSE LET i == CHOOSE j \in hit : \A k \in hit : j <= k
             IN  Document(docs[i], ReadText(fs.docs_dir[docs[i].filename]))

get_all_docs(fs, category) ==
    LET docs == _load_metadata(fs).docs
        kept == SelectSeq(docs, LAMBDA m : PassesCategory(m, category)
                                           /\ m.filename \in DOMAIN fs.docs_dir)
    IN  SortByUpdatedAtDesc(
            [i \in 1..Len(kept) |->
                Document(kept[i], ReadText(fs.docs_dir[kept[i].filename]))])

get_doc_categories(fs) ==
    LET docs == _load_metadata(fs).docs
    IN  {docs[i].category : i \in 1..Len(docs)}

create_doc(fs, title, content, category, user_id, clk, flt) ==
    LET doc_id == get_next_id(fs, "doc")
        filename == TxtName(doc_id)
    IN  IF flt.step = "content_open" THEN Raises(fs, flt.step, 0)
        ELSE IF flt.step = "content_write"
        THEN Raises([fs EXCEPT !.docs_dir = Put(@, filename, <<>>)], flt.step, 0)
        ELSE
        LET fs1 == [fs EXCEPT !.docs_dir = Put(@, filename, WriteText(content))]
            metadata == _load_metadata(fs1)
            doc_meta == [id |-> doc_id, title |-> title, filename |-> filename,
                         category |-> category, user_id |-> user_id,
                         attachments |-> <<>>,
                         created_at |-> clk[1], updated_at |-> clk[2]]
            sv == _save_metadata(
                      fs1, [metadata EXCEPT !.docs = Append(@, doc_meta)], flt)
            e == get_doc(sv.fs, doc_id)
        IN  AfterSave(sv, Returns(sv.fs, e.found, e, "", 2), 2)

update_doc(fs, doc_id, req, clk, flt) ==
    LET metadata == _load_metadata(fs)
        i == IndexOfId(metadata.docs, doc_id)
    IN  IF i = 0 THEN Returns(fs, FALSE, NotFound, "", 0)
        ELSE
        LET m0 == metadata.docs[i]
            m1 == IF "title" \in DOMAIN req THEN [m0 EXCEPT !.title = req.title] ELSE m0
            m2 == IF "category" \in DOMAIN req
                  THEN [m1 EXCEPT !.category = req.category] ELSE m1
            writes == "content" \in DOMAIN req
            updated == "title" \in DOMAIN req \/ "category" \in DOMAIN req \/ writes
        IN  IF writes /\ flt.step = "content_open" THEN Raises(fs, flt.step, 0)
            ELSE IF writes /\ flt.step = "content_write"
            THEN Raises([fs EXCEPT !.docs_dir = Put(@, m0.filename, <<>>)], flt.step, 0)
            ELSE IF ~updated THEN Returns(fs, FALSE, NotFound, "", 0)
            ELSE
            LET fs1 == IF writes
                       THEN [fs EXCEPT !.docs_dir =
                                 Put(@, m0.filename, WriteText(req.content))]
                       ELSE fs
                m3 == [m2 EXCEPT !.updated_at = clk[1]]
            IN  SaveAndReturn(fs1, [metadata EXCEPT !.docs[i] = m3], flt,
                              TRUE, "", 1)

delete_doc(fs, doc_id, flt) ==
    LET metadata == _load_metadata(fs)
        i == IndexOfId(metadata.docs, doc_id)
    IN  IF i = 0 THEN Returns(fs, FALSE, NotFound, "", 0)
        ELSE
        LET doc_meta == metadata.docs[i]
            hasFile == doc_meta.filename \in DOMAIN fs.docs_dir
            fs1 == [fs EXCEPT !.docs_dir = Unlink(@, doc_meta.filename)]
            present == {j \in 1..Len(doc_meta.attachments) :
                          doc_meta.attachments[j].filename \in DOMAIN fs.docs_uploads_dir}
            fs2 == [fs1 EXCEPT !.docs_uploads_dir = UnlinkAll(@, doc_meta.attachments)]
        IN  IF hasFile /\ flt.step = "remove_content" THEN Raises(fs, flt.step, 0)
            ELSE IF present # {} /\ flt.step = "remove_attachment"
            THEN Raises(fs1, flt.step, 0)
            ELSE SaveAndReturn(
                     fs2, [metadata EXCEPT !.docs = ListRemove(@, doc_meta)], flt,
                     TRUE, "", 0)

\* No call of check_storage_available here.
add_doc_attachment(fs, doc_id, uploaded_file, hex, clk, flt) ==
    LET metadata == _load_metadata(fs)
        i == IndexOfId(metadata.docs, doc_id)
        original_filename == secure_filename(uploaded_file.filename)
        unique_filename == UniqueName(doc_id, hex, splitext(original_filename))
    IN  IF i = 0 THEN Returns(fs, FALSE, NotFound, "", 0)
        ELSE IF original_filename = "" THEN Returns(fs, FALSE, NotFound, "", 0)
        ELSE IF flt.step = "upload_save" THEN Raises(fs, flt.step, 0)
        ELSE
        LET fs1 == [fs EXCEPT !.docs_uploads_dir =
                        Put(@, unique_filename, uploaded_file.size)]
            att == [filename |-> unique_filename,
                    original_filename |-> original_filename,
                    uploaded_at |-> clk[1]]
        IN  SaveAndReturn(
                fs1,
                [metadata EXCEPT !.docs[i].attachments = Append(@, att),
                                 !.docs[i].updated_at = clk[2]],
                flt, TRUE, "", 2)

delete_doc_attachment(fs, doc_id, attachment_filename, clk, flt) ==
    LET metadata == _load_metadata(fs)
        docs == metadata.docs
        hit == {i \in 1..Len(docs) :
                  docs[i].id = doc_id
                  /\ IndexOfAttachment(docs[i].attachments, attachment_filename) # 0}
    IN  IF hit = {} THEN Returns(fs, FALSE, NotFound, "", 0)
        ELSE
        LET i == CHOOSE j \in hit : \A k \in hit : j <= k
            a == IndexOfAttachment(docs[i].attachments, attachment_filename)
            exists == attachment_filename \in DOMAIN fs.docs_uploads_dir
            fs1 == [fs EXCEPT !.docs_uploads_dir = Unlink(@, attachment_filename)]
        IN  \* os.remove outside any try: a failure is raised
            IF exists /\ flt.step = "remove_attachment" THEN Raises(fs, flt.step, 0)
            ELSE SaveAndReturn(
                     fs1,
                     [metadata EXCEPT !.docs[i].attachments = RemoveAt(@, a),
                                      !.docs[i].updated_at = clk[1]],
                     flt, TRUE, "", 1)

(***************************************************************************)
(* The calls the model makes: the arguments are drawn from these sets.     *)
(***************************************************************************)
Titles == {"t1", "t2"}
Contents == {<<"a">>, <<"a", CR, LF, "b">>}
Categories == {"work", ""}
Owners == {None, "u1"}
Workers == {"w1", "w2"}

\* create(title, content, category, user_id): four of the combinations, in
\* which every value of every argument occurs.
CreateArgs ==
    {[title |-> "t1", content |-> <<"a">>, category |-> "work", user_id |-> None],
     [title |-> "t2", content |-> <<"a", CR, LF, "b">>, category |-> "", user_id |-> "u1"],
     [title |-> "t1", content |-> <<"a", CR, LF, "b">>, category |-> "work", user_id |-> "u1"],
     [title |-> "t2", content |-> <<"a">>, category |-> "", user_id |-> None]}

\* The arguments of update that are not None.
UpdateReqs ==
    {<<>>, [user_id |-> "u2"], [title |-> "t2"],
     [content |-> <<"a">>], [content |-> <<"b", CR, "c">>],
     [title |-> "t1", content |-> <<"b", LF>>, category |-> "home", user_id |-> "u2"]}

UploadedFiles ==
    {[filename |-> "report.pdf", size |-> 3],
     [filename |-> "../x.txt", size |-> 5],
     [filename |-> "/", size |-> 1]}

\* The values uuid.uuid4().hex[:8] takes, in the order the model draws them.
HexPool == <<"1f", "2e", "3d", "4c">>

\* What list is asked for: a category, "all", or None.
ListCategories == Categories \cup {"home", "all", None}

\* A clock that may run backwards between two calls of utcnow().
ClockReads_any == (now..Min(now + 1, MaxTime)) \X (now..Min(now + 1, MaxTime))

\* The values of two successive datetime.utcnow() calls (a call that reads
\* the clock once takes the first): the clock does not run backwards and
\* need not advance between two calls.
ClockReads ==
    {c \in (now..Min(now + 1, MaxTime)) \X (now..Min(now + 1, MaxTime)) :
        c[1] <= c[2]}
ClockRead == {<<t, t>> : t \in now..Min(now + 1, MaxTime)}

ContentSteps == {"content_open", "content_write"}
RemoveSteps == {"remove_content", "remove_attachment"}
FaultsOf(stepnames) ==
    {NoFault} \cup {[step |-> st, rm |-> r] : st \in stepnames, r \in {TRUE}}
              \cup {[step |-> st, rm |-> FALSE] : st \in stepnames \cap SaveSteps}

\* The faults a call may meet: none in the fault-free specifications.
Faults(faulty, stepnames) == IF faulty THEN FaultsOf(stepnames) ELSE {NoFault}
Budget(faulty) == IF faulty THEN MaxFaultOps ELSE MaxOps

Index == _load_metadata(FS)
Items(kind) == Index[Key(kind)]
ContentDir(kind) == IF kind = "note" THEN notes_dir ELSE docs_dir
UploadsDir(kind) == IF kind = "note" THEN notes_uploads_dir ELSE docs_uploads_dir

\* The ids a call is made with: those of the entities of the kind, and the
\* next one, which names none.
Ids(kind) ==
    {Items(kind)[i].id : i \in 1..Len(Items(kind))} \cup {get_next_id(FS, kind)}

\* The stored names of the attachments of a kind, in the index or on disk.
StoredNames(kind) ==
    (DOMAIN UploadsDir(kind))
    \cup UNION {{Items(kind)[i].attachments[j].filename :
                    j \in 1..Len(Items(kind)[i].attachments)} :
                i \in 1..Len(Items(kind))}

(***************************************************************************)
(* The state after FileStorage.__init__ on an empty data directory.        *)
(***************************************************************************)
\* A worker's local variables before its first call.
IdleLoc ==
    [op |-> "none", note_id |-> 0, metadata |-> EmptyIndex, fd |-> "none",
     seen |-> EmptyIndex, calls |-> 0, raised |-> FALSE, passed |-> {}]

NoCall ==
    [op |-> "init", kind |-> "note", id |-> 0, req |-> <<>>, raised |-> "none",
     ok |-> FALSE, entity |-> NotFound, msg |-> "", save |-> "none", rm |-> TRUE]

Init ==
    /\ metadata_file = Serialized(EmptyIndex)
    /\ temp_file = NoFile
    /\ notes_dir = EmptyDir
    /\ docs_dir = EmptyDir
    /\ notes_uploads_dir = EmptyDir
    /\ docs_uploads_dir = EmptyDir
    /\ now = 0
    /\ last = NoCall
    /\ steps = 0
    /\ created = [k \in Kinds |-> 0]
    /\ issued = [k \in Kinds |-> {}]
    /\ pc = [w \in Workers |-> "idle"]
    /\ loc = [w \in Workers |-> IdleLoc]

\* A call op(id, req) of a kind was made, with outcome o.
Called(op, kind, id, req, o, clk, flt) ==
    /\ metadata_file' = o.fs.metadata_file
    /\ temp_file' = o.fs.temp_file
    /\ notes_dir' = o.fs.notes_dir
    /\ docs_dir' = o.fs.docs_dir
    /\ notes_uploads_dir' = o.fs.notes_uploads_dir
    /\ docs_uploads_dir' = o.fs.docs_uploads_dir
    /\ now' = IF o.reads = 0 THEN now ELSE clk[o.reads]
    /\ last' = [op |-> op, kind |-> kind, id |-> id, req |-> req,
                raised |-> o.raised, ok |-> o.ok, entity |-> o.entity,
                msg |-> o.msg, save |-> o.save, rm |-> flt.rm]
    /\ steps' = steps + 1
    /\ created' = IF op = "create" THEN [created EXCEPT ![kind] = @ + 1] ELSE created
    /\ issued' = IF op = "create" /\ o.entity.found
                 THEN [issued EXCEPT ![kind] = @ \cup {o.entity.id}]
                 ELSE issued
    /\ UNCHANGED <<pc, loc>>

CreateNote(faulty) ==
    /\ steps < Budget(faulty)
    /\ \E a \in CreateArgs, clk \in ClockReads,
          flt \in Faults(faulty, ContentSteps \cup SaveSteps) :
        LET o == create_note(FS, a.title, a.content, a.category, a.user_id, clk, flt)
        IN  Called("create", "note", IF o.ok THEN o.entity.id ELSE 0, a, o, clk, flt)

CreateDoc(faulty) ==
    /\ steps < Budget(faulty)
    /\ \E a \in CreateArgs, clk \in ClockReads,
          flt \in Faults(faulty, ContentSteps \cup SaveSteps) :
        LET o == create_doc(FS, a.title, a.content, a.category, a.user_id, clk, flt)
        IN  Called("create", "doc", IF o.ok THEN o.entity.id ELSE 0, a, o, clk, flt)

IncrementNoteViewCount(faulty) ==
    /\ steps < Budget(faulty)
    /\ \E id \in Ids("note"), flt \in Faults(faulty, SaveSteps) :
        Called("increment", "note", id, <<>>,
               increment_note_view_count(FS, id, flt), <<now, now>>, flt)

UpdateNote(faulty) ==
    /\ steps < Budget(faulty)
    /\ \E id \in Ids("note"), req \in UpdateReqs, clk \in ClockRead,
          flt \in Faults(faulty, ContentSteps \cup SaveSteps) :
        Called("update", "note", id, req, update_note(FS, id, req, clk, flt), clk, flt)

UpdateDoc(faulty) ==
    /\ steps < Budget(faulty)
    /\ \E id \in Ids("doc"), req \in {r \in UpdateReqs : "user_id" \notin DOMAIN r},
          clk \in ClockRead, flt \in Faults(faulty, ContentSteps \cup SaveSteps) :
        Called("update", "doc", id, req, update_doc(FS, id, req, clk, flt), clk, flt)

DeleteNote(faulty) ==
    /\ steps < Budget(faulty)
    /\ \E id \in Ids("note"), flt \in Faults(faulty, RemoveSteps \cup SaveSteps) :
        Called("delete", "note", id, <<>>, delete_note(FS, id, flt), <<now, now>>, flt)

DeleteDoc(faulty) ==
    /\ steps < Budget(faulty)
    /\ \E id \in Ids("doc"), flt \in Faults(faulty, RemoveSteps \cup SaveSteps) :
        Called("delete", "doc", id, <<>>, delete_doc(FS, id, flt), <<now, now>>, flt)

\* uuid.uuid4().hex[:8] is drawn at random: the model draws the first value
\* of HexPool that names no attachment of the kind yet (none is left after
\* Len(HexPool) uploads of one extension to one id, and the upload is not
\* modelled).
FreshHex(kind, id, ext) ==
    {HexPool[i] : i \in {i \in 1..Len(HexPool) :
        /\ UniqueName(id, HexPool[i], ext) \notin StoredNames(kind)
        /\ \A j \in 1..(i - 1) : UniqueName(id, HexPool[j], ext) \in StoredNames(kind)}}

AddNoteAttachment(faulty) ==
    /\ steps < Budget(faulty)
    /\ \E id \in Ids("note"), f \in UploadedFiles, clk \in ClockReads,
          flt \in Faults(faulty, {"upload_save"} \cup SaveSteps) :
       \E hex \in FreshHex("note", id, splitext(secure_filename(f.filename))) :
        /\ Called("add_attachment", "note", id,
                  [file |-> f, hex |-> hex],
                  add_note_attachment(FS, id, f, hex, clk, flt), clk, flt)

AddDocAttachment(faulty) ==
    /\ steps < Budget(faulty)
    /\ \E id \in Ids("doc"), f \in UploadedFiles, clk \in ClockReads,
          flt \in Faults(faulty, {"upload_save"} \cup SaveSteps) :
       \E hex \in FreshHex("doc", id, splitext(secure_filename(f.filename))) :
        /\ Called("add_attachment", "doc", id,
                  [file |-> f, hex |-> hex],
                  add_doc_attachment(FS, id, f, hex, clk, flt), clk, flt)

DeleteNoteAttachment(faulty) ==
    /\ steps < Budget(faulty)
    /\ \E id \in Ids("note"), name \in StoredNames("note") \cup {UniqueName(1, "00", "")},
          clk \in ClockRead, flt \in Faults(faulty, {"remove_attachment"} \cup SaveSteps) :
        Called("delete_attachment", "note", id, [filename |-> name],
               delete_note_attachment(FS, id, name, clk, flt), clk, flt)

DeleteDocAttachment(faulty) ==
    /\ steps < Budget(faulty)
    /\ \E id \in Ids("doc"), name \in StoredNames("doc") \cup {UniqueName(1, "00", "")},
          clk \in ClockRead, flt \in Faults(faulty, {"remove_attachment"} \cup SaveSteps) :
        Called("delete_attachment", "doc", id, [filename |-> name],
               delete_doc_attachment(FS, id, name, clk, flt), clk, flt)

(***************************************************************************)
(* Spec: the calls made one after the other, every I/O step succeeding.    *)
(***************************************************************************)
Next ==
    \/ CreateNote(FALSE)
    \/ CreateDoc(FALSE)
    \/ IncrementNoteViewCount(FALSE)
    \/ UpdateNote(FALSE)
    \/ UpdateDoc(FALSE)
    \/ DeleteNote(FALSE)
    \/ DeleteDoc(FALSE)
    \/ AddNoteAttachment(FALSE)
    \/ AddDocAttachment(FALSE)
    \/ DeleteNoteAttachment(FALSE)
    \/ DeleteDocAttachment(FALSE)

Spec == Init /\ [][Next]_vars

(***************************************************************************)
(* SpecFault: the calls with I/O failures, and a data directory whose      *)
(* metadata file is damaged or removed from outside the program.           *)
(***************************************************************************)
Damaged(op) ==
    /\ last' = [NoCall EXCEPT !.op = op]
    /\ steps' = steps + 1
    /\ UNCHANGED <<temp_file, notes_dir, docs_dir, notes_uploads_dir,
                   docs_uploads_dir, now, created, issued, pc, loc>>

\* metadata.json is left with content json.load rejects.
CorruptMetadata ==
    /\ steps < MaxFaultOps
    /\ metadata_file.exists /\ metadata_file.full
    /\ metadata_file' = Partial(metadata_file.idx)
    /\ Damaged("corrupt")

\* metadata.json is removed.
RemoveMetadataFile ==
    /\ steps < MaxFaultOps
    /\ metadata_file.exists
    /\ metadata_file' = NoFile
    /\ Damaged("remove_metadata")

NextFault ==
    \/ CreateNote(TRUE)
    \/ CreateDoc(TRUE)
    \/ IncrementNoteViewCount(TRUE)
    \/ UpdateNote(TRUE)
    \/ UpdateDoc(TRUE)
    \/ DeleteNote(TRUE)
    \/ DeleteDoc(TRUE)
    \/ AddNoteAttachment(TRUE)
    \/ AddDocAttachment(TRUE)
    \/ DeleteNoteAttachment(TRUE)
    \/ DeleteDocAttachment(TRUE)
    \/ CorruptMetadata
    \/ RemoveMetadataFile

SpecFault == Init /\ [][NextFault]_vars

(***************************************************************************)
(* SpecFaultStocked: the calls with I/O failures, on a store that holds a  *)
(* note and a document with one attachment each.                           *)
(***************************************************************************)
StockFile == [filename |-> "report.pdf", size |-> 3]

\* The disk after create_note, add_note_attachment, create_doc and
\* add_doc_attachment on the empty store, all at time 0.
Stocked ==
    LET fs0 == [metadata_file |-> Serialized(EmptyIndex), temp_file |-> NoFile,
                notes_dir |-> EmptyDir, docs_dir |-> EmptyDir,
                notes_uploads_dir |-> EmptyDir, docs_uploads_dir |-> EmptyDir]
        fs1 == create_note(fs0, "t1", <<"a">>, "work", None, <<0, 0>>, NoFault).fs
        fs2 == add_note_attachment(fs1, 1, StockFile, HexPool[1], <<0, 0>>, NoFault).fs
        fs3 == create_doc(fs2, "t1", <<"a">>, "work", None, <<0, 0>>, NoFault).fs
    IN  add_doc_attachment(fs3, 1, StockFile, HexPool[1], <<0, 0>>, NoFault).fs

InitStocked ==
    /\ metadata_file = Stocked.metadata_file
    /\ temp_file = Stocked.temp_file
    /\ notes_dir = Stocked.notes_dir
    /\ docs_dir = Stocked.docs_dir
    /\ notes_uploads_dir = Stocked.notes_uploads_dir
    /\ docs_uploads_dir = Stocked.docs_uploads_dir
    /\ now = 0
    /\ last = NoCall
    /\ steps = 0
    /\ created = [k \in Kinds |-> 1]
    /\ issued = [k \in Kinds |-> {1}]
    /\ pc = [w \in Workers |-> "idle"]
    /\ loc = [w \in Workers |-> IdleLoc]

SpecFaultStocked == InitStocked /\ [][NextFault]_vars

(***************************************************************************)
(* SpecCorrupted: the calls with I/O failures, on the store of             *)
(* SpecFaultStocked after its metadata.json was left unparsable: the       *)
(* records are lost to json.load while the content files and the           *)
(* attachment files are in their directories.                              *)
(***************************************************************************)
InitCorrupted ==
    /\ metadata_file = Partial(Stocked.metadata_file.idx)
    /\ temp_file = Stocked.temp_file
    /\ notes_dir = Stocked.notes_dir
    /\ docs_dir = Stocked.docs_dir
    /\ notes_uploads_dir = Stocked.notes_uploads_dir
    /\ docs_uploads_dir = Stocked.docs_uploads_dir
    /\ now = 0
    /\ last = [NoCall EXCEPT !.op = "corrupt"]
    /\ steps = 0
    /\ created = [k \in Kinds |-> 1]
    /\ issued = [k \in Kinds |-> {1}]
    /\ pc = [w \in Workers |-> "idle"]
    /\ loc = [w \in Workers |-> IdleLoc]

SpecCorrupted == InitCorrupted /\ [][NextFault]_vars

(***************************************************************************)
(* SpecConc: workers on one data directory, each a FileStorage of its own  *)
(* (one per request), running at the granularity of file operations.  A    *)
(* worker's open file follows its inode: fd is "tmp" while the inode is at *)
(* the temporary path, "meta" once a rename has moved it to the metadata   *)
(* path, "gone" once it has no path.                                       *)
(***************************************************************************)
WorkerArgs(w) ==
    IF w = "w1"
    THEN [title |-> "t1", content |-> <<"a">>, category |-> "work", user_id |-> None]
    ELSE [title |-> "t2", content |-> <<"b">>, category |-> "", user_id |-> "u1"]

ConcFrame == UNCHANGED <<now, last, steps, created, issued>>

Goto(w, pos, locals) ==
    /\ pc' = [pc EXCEPT ![w] = pos]
    /\ loc' = [loc EXCEPT ![w] = locals]

\* create_note, line 76: note_id = self.get_next_id('note')
W_CreateNote(w) ==
    /\ pc[w] = "idle" /\ loc[w].calls < MaxWorkerOps
    /\ Goto(w, "c_write", [loc[w] EXCEPT !.op = "create_note",
                                         !.note_id = get_next_id(FS, "note"),
                                         !.calls = @ + 1, !.raised = FALSE])
    /\ UNCHANGED disk /\ ConcFrame

\* create_note, lines 84-86: the content file is written.
W_WriteContent(w) ==
    /\ pc[w] = "c_write"
    /\ notes_dir' = Put(notes_dir, TxtName(loc[w].note_id),
                        WriteText(WorkerArgs(w).content))
    /\ Goto(w, "c_load", loc[w])
    /\ UNCHANGED <<metadata_file, temp_file, docs_dir, notes_uploads_dir,
                   docs_uploads_dir>>
    /\ ConcFrame

\* create_note, lines 91-103: the index is loaded and the record appended.
W_LoadAppend(w) ==
    /\ pc[w] = "c_load"
    /\ LET a == WorkerArgs(w)
           note_meta == [id |-> loc[w].note_id, title |-> a.title,
                         filename |-> TxtName(loc[w].note_id),
                         category |-> a.category, user_id |-> a.user_id,
                         attachments |-> <<>>, view_count |-> 0,
                         created_at |-> now, updated_at |-> now,
                         updated_by |-> None]
           metadata == [_load_metadata(FS) EXCEPT !.notes = Append(@, note_meta)]
       IN  Goto(w, "s_open", [loc[w] EXCEPT !.metadata = metadata,
                                            !.passed = @ \cup {metadata}])
    /\ UNCHANGED disk /\ ConcFrame

\* A read: _load_metadata, lines 33-37.
W_Load(w) ==
    /\ pc[w] = "idle" /\ loc[w].calls < MaxWorkerOps
    /\ Goto(w, "idle", [loc[w] EXCEPT !.op = "load", !.seen = _load_metadata(FS),
                                      !.calls = @ + 1, !.raised = FALSE])
    /\ UNCHANGED disk /\ ConcFrame

\* A write through an open file reaches the inode, wherever it is now.
WriteAt(fd, file) ==
    /\ temp_file' = IF fd = "tmp" THEN file ELSE temp_file
    /\ metadata_file' = IF fd = "meta" THEN file ELSE metadata_file

\* _save_metadata, line 49: open(temp_file, 'w') creates the file, or
\* truncates the one that is there, another worker's included.
S_Open(w) ==
    /\ pc[w] = "s_open"
    /\ temp_file' = Truncated
    /\ Goto(w, "s_dump", [loc[w] EXCEPT !.fd = "tmp"])
    /\ UNCHANGED <<metadata_file, notes_dir, docs_dir, notes_uploads_dir,
                   docs_uploads_dir>>
    /\ ConcFrame

\* _save_metadata, line 50: json.dump; a part of the text reaches the file.
S_Dump(w) ==
    /\ pc[w] = "s_dump"
    /\ WriteAt(loc[w].fd, Partial(loc[w].metadata))
    /\ Goto(w, "s_close", loc[w])
    /\ UNCHANGED <<notes_dir, docs_dir, notes_uploads_dir, docs_uploads_dir>>
    /\ ConcFrame

\* _save_metadata, line 49: leaving the with block flushes the rest and
\* closes the file.
S_Close(w) ==
    /\ pc[w] = "s_close"
    /\ WriteAt(loc[w].fd, Serialized(loc[w].metadata))
    /\ Goto(w, "s_replace", [loc[w] EXCEPT !.fd = "none"])
    /\ UNCHANGED <<notes_dir, docs_dir, notes_uploads_dir, docs_uploads_dir>>
    /\ ConcFrame

\* _save_metadata, line 54: os.replace(temp_file, self.metadata_file); it
\* raises when another worker has renamed or removed the temporary file.
S_Replace(w) ==
    /\ pc[w] = "s_replace"
    /\ IF temp_file.exists
       THEN /\ metadata_file' = temp_file
            /\ temp_file' = NoFile
            /\ pc' = [pc EXCEPT ![w] = "idle"]
            /\ loc' = [v \in Workers |->
                         [loc[v] EXCEPT !.fd = CASE @ = "tmp" -> "meta"
                                                 [] @ = "meta" -> "gone"
                                                 [] OTHER -> @]]
       ELSE /\ UNCHANGED <<metadata_file, temp_file>>
            /\ Goto(w, "s_handler", loc[w])
    /\ UNCHANGED <<notes_dir, docs_dir, notes_uploads_dir, docs_uploads_dir>>
    /\ ConcFrame

\* _save_metadata, lines 55-63: the handler removes the temporary file that
\* is there now, and raises.
S_Handler(w) ==
    /\ pc[w] = "s_handler"
    /\ temp_file' = NoFile
    /\ pc' = [pc EXCEPT ![w] = "idle"]
    /\ loc' = [v \in Workers |->
                 [loc[v] EXCEPT !.fd = IF @ = "tmp" /\ temp_file.exists
                                       THEN "gone" ELSE @,
                                !.raised = IF v = w THEN TRUE ELSE @]]
    /\ UNCHANGED <<metadata_file, notes_dir, docs_dir, notes_uploads_dir,
                   docs_uploads_dir>>
    /\ ConcFrame

NextConc ==
    \/ \E w \in Workers : W_CreateNote(w)
    \/ \E w \in Workers : W_WriteContent(w)
    \/ \E w \in Workers : W_LoadAppend(w)
    \/ \E w \in Workers : W_Load(w)
    \/ \E w \in Workers : S_Open(w)
    \/ \E w \in Workers : S_Dump(w)
    \/ \E w \in Workers : S_Close(w)
    \/ \E w \in Workers : S_Replace(w)
    \/ \E w \in Workers : S_Handler(w)

SpecConc == Init /\ [][NextConc]_vars

(***************************************************************************)
(* SpecRace: two workers, each changing a note of its own, on a store that *)
(* holds notes 1 and 2; load, change and the steps of the save interleave. *)
(***************************************************************************)
\* The disk after two create_note calls on the empty store, at time 0.
TwoNotes ==
    LET fs0 == [metadata_file |-> Serialized(EmptyIndex), temp_file |-> NoFile,
                notes_dir |-> EmptyDir, docs_dir |-> EmptyDir,
                notes_uploads_dir |-> EmptyDir, docs_uploads_dir |-> EmptyDir]
        fs1 == create_note(fs0, "t1", <<"a">>, "work", None, <<0, 0>>, NoFault).fs
    IN  create_note(fs1, "t1", <<"b">>, "", "u1", <<0, 0>>, NoFault).fs

InitRace ==
    /\ metadata_file = TwoNotes.metadata_file
    /\ temp_file = TwoNotes.temp_file
    /\ notes_dir = TwoNotes.notes_dir
    /\ docs_dir = TwoNotes.docs_dir
    /\ notes_uploads_dir = TwoNotes.notes_uploads_dir
    /\ docs_uploads_dir = TwoNotes.docs_uploads_dir
    /\ now = 1
    /\ last = NoCall
    /\ steps = 0
    /\ created = [k \in Kinds |-> IF k = "note" THEN 2 ELSE 0]
    /\ issued = [k \in Kinds |-> IF k = "note" THEN {1, 2} ELSE {}]
    /\ pc = [w \in Workers |-> "idle"]
    /\ loc = [w \in Workers |-> IdleLoc]

\* The note a worker changes.
WorkerNote(w) == IF w = "w1" THEN 1 ELSE 2

\* A worker has loaded the index and changed its copy: the save follows.
Loaded(w, op, metadata) ==
    Goto(w, "s_open", [loc[w] EXCEPT !.op = op, !.note_id = WorkerNote(w),
                                     !.seen = _load_metadata(FS),
                                     !.metadata = metadata,
                                     !.passed = @ \cup {metadata},
                                     !.calls = @ + 1, !.raised = FALSE])

\* update_note(note_id, title='t2'), lines 185-213: the index is loaded and
\* the record changed in memory.
W_UpdateNote(w) ==
    /\ pc[w] = "idle" /\ loc[w].calls < MaxWorkerOps
    /\ IndexOfId(_load_metadata(FS).notes, WorkerNote(w)) # 0
    /\ Loaded(w, "update_note",
              update_note(FS, WorkerNote(w), [title |-> "t2"], <<now, now>>, NoFault)
                  .fs.metadata_file.idx)
    /\ UNCHANGED disk /\ ConcFrame

\* increment_note_view_count(note_id), lines 175-178.
W_IncrementNoteViewCount(w) ==
    /\ pc[w] = "idle" /\ loc[w].calls < MaxWorkerOps
    /\ IndexOfId(_load_metadata(FS).notes, WorkerNote(w)) # 0
    /\ Loaded(w, "increment_note_view_count",
              increment_note_view_count(FS, WorkerNote(w), NoFault).fs.metadata_file.idx)
    /\ UNCHANGED disk /\ ConcFrame

NextRace ==
    \/ \E w \in Workers : W_UpdateNote(w)
    \/ \E w \in Workers : W_IncrementNoteViewCount(w)
    \/ \E w \in Workers : S_Open(w)
    \/ \E w \in Workers : S_Dump(w)
    \/ \E w \in Workers : S_Close(w)
    \/ \E w \in Workers : S_Replace(w)
    \/ \E w \in Workers : S_Handler(w)

SpecRace == InitRace /\ [][NextRace]_vars

(***************************************************************************)
(* SpecCreate: create calls only, of the two kinds in any order.           *)
(***************************************************************************)
NextCreate ==
    \/ CreateNote(FALSE)
    \/ CreateDoc(FALSE)

SpecCreate == Init /\ [][NextCreate]_vars

(***************************************************************************)
(* The methods by kind.                                                    *)
(***************************************************************************)
Get(kind, fs, id) == IF kind = "note" THEN get_note(fs, id) ELSE get_doc(fs, id)
List(kind, fs, category) ==
    IF kind = "note" THEN get_all_notes(fs, category) ELSE get_all_docs(fs, category)
Delete(kind, fs, id, flt) ==
    IF kind = "note" THEN delete_note(fs, id, flt) ELSE delete_doc(fs, id, flt)
ListedCategories(kind, fs) ==
    IF kind = "note" THEN get_note_categories(fs) ELSE get_doc_categories(fs)

\* A call was made in this step.
CallStep == steps' = steps + 1

\* The records of a kind in the metadata file.
Records(kind) == metadata_file.idx[Key(kind)]

(***************************************************************************)
(* C2.  After any sequence of calls made one after the other from an empty *)
(* store, no two metadata records of the same kind have the same id.       *)
(***************************************************************************)
C2_UniqueIds ==
    \A kind \in Kinds : \A i, j \in 1..Len(Records(kind)) :
        i # j => Records(kind)[i].id # Records(kind)[j].id

C2_Witness ==
    \E kind \in Kinds :
        /\ Len(Records(kind)) >= 2
        /\ last.op = "create" /\ last.kind = kind

(***************************************************************************)
(* C3.  In a sequence of create calls on an empty store, notes and docs in *)
(* any order, the k-th create of a kind returns id k, and a create of one  *)
(* kind leaves the next id of the other kind as it was.                    *)
(***************************************************************************)
C3_CreateIds ==
    [][CallStep =>
        /\ last'.entity.found
        /\ last'.entity.id = created'[last'.kind]
        /\ get_next_id(FS', Other(last'.kind)) = get_next_id(FS, Other(last'.kind))
      ]_vars

C3_Witness ==
    /\ created["note"] >= 2 /\ created["doc"] >= 1
    /\ last.op = "create" /\ last.kind = "doc" /\ last.entity.id = 1

(***************************************************************************)
(* C4.  create(title, content, category, owner) returns an entity with id  *)
(* i, and get(i) right after it returns an entity with the same title,     *)
(* content, category and owner, no attachments and, for a note, a          *)
(* view_count of 0.                                                        *)
(***************************************************************************)
C4_RoundTrip ==
    (last.op = "create" /\ last.raised = "none") =>
        LET e == Get(last.kind, FS, last.id)
        IN  /\ last.entity.found /\ last.entity.id = last.id
            /\ e.found
            /\ e.title = last.req.title
            /\ e.content = last.req.content
            /\ e.category = last.req.category
            /\ e.user_id = last.req.user_id
            /\ e.attachments = <<>>
            /\ (last.kind = "note" => e.view_count = 0)

(***************************************************************************)
(* C5.  For an existing entity, update(id, content=X) followed by get(id)  *)
(* returns content X and an updated_at strictly greater than the one       *)
(* before; update(id) with title, content and category all absent returns  *)
(* false and leaves the metadata and the files as they were, also when an  *)
(* editor id is given.                                                     *)
(***************************************************************************)
C5_Update ==
    [][(CallStep /\ last'.op = "update") =>
        LET kind == last'.kind
            req == last'.req
            before == Get(kind, FS, last'.id)
            after == Get(kind, FS', last'.id)
        IN  /\ (before.found /\ DOMAIN req = {"content"}) =>
                  /\ after.found
                  /\ after.content = req.content
                  /\ after.updated_at > before.updated_at
            /\ (before.found /\ DOMAIN req \subseteq {"user_id"}) =>
                  /\ ~last'.ok
                  /\ UNCHANGED disk
      ]_vars

(***************************************************************************)
(* C6.  delete(id) of an existing entity returns true; after it get(id)    *)
(* returns not-found, no list holds the entity, and a second delete(id)    *)
(* returns false and changes nothing.  delete of an id that names no       *)
(* entity returns false and changes nothing.                               *)
(***************************************************************************)
C6_Delete ==
    [][(CallStep /\ last'.op = "delete") =>
        LET kind == last'.kind
            id == last'.id
            existed == IndexOfId(Records(kind), id) # 0
            again == Delete(kind, FS', id, NoFault)
        IN  /\ existed =>
                  /\ last'.ok /\ last'.raised = "none"
                  /\ ~Get(kind, FS', id).found
                  /\ \A c \in ListCategories :
                        \A i \in 1..Len(List(kind, FS', c)) : List(kind, FS', c)[i].id # id
                  /\ ~again.ok /\ again.raised = "none" /\ again.fs = FS'
            /\ ~existed =>
                  /\ ~last'.ok /\ last'.raised = "none"
                  /\ UNCHANGED disk
      ]_vars

C6_Witness ==
    /\ last.op = "delete" /\ last.ok
    /\ Len(Records(last.kind)) >= 1
    /\ Len(List(last.kind, FS, None)) >= 1

(***************************************************************************)
(* C7.  For both kinds: an addAttachment call with currentUsage + size >   *)
(* quota is rejected, writes no file and leaves the metadata unchanged; an *)
(* addAttachment call to an existing entity with a valid filename and      *)
(* currentUsage + size <= quota succeeds and raises the total usage by     *)
(* exactly size.                                                           *)
(***************************************************************************)
C7_AttachmentQuota ==
    [][(CallStep /\ last'.op = "add_attachment") =>
        LET size == last'.req.file.size
            usage == get_total_storage_size(FS)
            exists == IndexOfId(Records(last'.kind), last'.id) # 0
        IN  /\ (usage + size > max_storage) =>
                  /\ ~last'.ok
                  /\ UNCHANGED disk
            /\ (usage + size <= max_storage /\ exists
                  /\ secure_filename(last'.req.file.filename) # "") =>
                  /\ last'.ok
                  /\ get_total_storage_size(FS') = usage + size
      ]_vars

(***************************************************************************)
(* C8.  list(category=x)                                                   *)
(***************************************************************************)
\* The records of a kind whose content file is present, in metadata order.
PresentRecords(kind) ==
    SelectSeq(Records(kind), LAMBDA m : m.filename \in DOMAIN ContentDir(kind))

\* L holds exactly the entities of the records E, ordered by updated_at
\* descending, those of equal updated_at in the order of the metadata.
ListsExactly(kind, L, E) ==
    /\ Len(L) = Len(E)
    /\ \A i \in 1..Len(E) : \E j \in 1..Len(L) : L[j] = Get(kind, FS, E[i].id)
    /\ \A i, j \in 1..Len(L) :
          i < j =>
            \/ L[i].updated_at > L[j].updated_at
            \/ /\ L[i].updated_at = L[j].updated_at
               /\ IndexOfId(Records(kind), L[i].id) < IndexOfId(Records(kind), L[j].id)

\* The claim as made: every category string other than "all" selects the
\* entities of that category.
C8_ListAnyCategory ==
    \A kind \in Kinds : \A x \in ListCategories :
        ListsExactly(kind, List(kind, FS, x),
            IF x \in {"all", None} THEN PresentRecords(kind)
            ELSE SelectSeq(PresentRecords(kind), LAMBDA m : m.category = x))

\* C8, amended.  For every non-empty category string x other than "all",
\* list(category=x) returns exactly the entities of the kind with a present
\* content file whose category equals x; list(category="all"),
\* list(category="") and list() return all of them; the result is ordered by
\* updated_at descending, entities of equal updated_at in metadata order.
C8_List ==
    \A kind \in Kinds : \A x \in ListCategories :
        ListsExactly(kind, List(kind, FS, x),
            IF x \in {"all", None, ""} THEN PresentRecords(kind)
            ELSE SelectSeq(PresentRecords(kind), LAMBDA m : m.category = x))

C8_Witness ==
    \E kind \in Kinds :
        LET L == List(kind, FS, None)
        IN  /\ Len(L) >= 2
            /\ \E i, j \in 1..Len(L) : i < j /\ L[i].updated_at = L[j].updated_at
            /\ \E i \in 1..Len(L) : L[i].id # Records(kind)[i].id
            /\ Len(List(kind, FS, "work")) \in 1..(Len(L) - 1)

(***************************************************************************)
(* C9.  When the metadata file is missing or cannot be parsed, every read  *)
(* sees an empty index: get returns not-found for every id, each list is   *)
(* empty and so is each set of categories.                                 *)
(***************************************************************************)
C9_UnreadableIsEmpty ==
    (~metadata_file.exists \/ ~metadata_file.full) =>
        /\ _load_metadata(FS) = EmptyIndex
        /\ \A kind \in Kinds :
              /\ \A id \in 1..(MaxFaultOps + 1) : ~Get(kind, FS, id).found
              /\ \A c \in ListCategories : List(kind, FS, c) = <<>>
              /\ ListedCategories(kind, FS) = {}

C9_Witness ==
    /\ metadata_file.exists /\ ~metadata_file.full
    /\ \E kind \in Kinds :
          /\ metadata_file.idx[Key(kind)] # <<>>
          /\ metadata_file.idx[Key(kind)][1].filename \in DOMAIN ContentDir(kind)

\* The metadata file is missing while content files are on disk.
C9_WitnessMissing ==
    /\ ~metadata_file.exists
    /\ notes_dir # EmptyDir

(***************************************************************************)
(* C10.  A save that fails at any of its steps leaves metadata.json as it  *)
(* was, leaves no temporary file and raises to the caller.                 *)
(***************************************************************************)
C10_FailedSaveNoTemp ==
    [][(CallStep /\ last'.save \in SaveSteps) =>
        /\ metadata_file' = metadata_file
        /\ last'.raised # "none"
        /\ ~temp_file'.exists
      ]_vars

\* C10, amended.  A save that fails at any of its steps leaves metadata.json
\* as it was and raises to the caller; the temporary file does not exist
\* afterwards unless its removal failed as well.
C10_FailedSave ==
    [][(CallStep /\ last'.save \in SaveSteps) =>
        /\ metadata_file' = metadata_file
        /\ last'.raised # "none"
        /\ (last'.rm => ~temp_file'.exists)
      ]_vars

C10_Witness ==
    /\ last.save \in {"save_dump", "save_replace"}
    /\ last.raised # "none"
    /\ last.rm
    /\ ~temp_file.exists
    /\ metadata_file.exists

(***************************************************************************)
(* C1.  In every interleaving of workers that save and load the metadata,  *)
(* the file at the metadata path is at every moment a complete             *)
(* serialization of the initial index or of an index passed to a save: no  *)
(* reader finds it partially written or truncated.                         *)
(***************************************************************************)
C1_AtomicSave ==
    /\ metadata_file.exists
    /\ metadata_file.full
    /\ \/ metadata_file.idx = EmptyIndex
       \/ \E w \in Workers : metadata_file.idx \in loc[w].passed

(***************************************************************************)
(* C11.  removeAttachment, for both kinds: when the entity has an          *)
(* attachment entry with the given stored filename, the entry is removed   *)
(* from the metadata and the call returns true, whether the file is        *)
(* deleted, is already absent, or cannot be deleted; when there is no such *)
(* entity or entry the call returns false and changes nothing.  (Calls     *)
(* whose save of the metadata fails are left aside.)                       *)
(***************************************************************************)
HasAttachment(kind, id, filename) ==
    \E i \in 1..Len(Items(kind)) :
        /\ Items(kind)[i].id = id
        /\ IndexOfAttachment(Items(kind)[i].attachments, filename) # 0

C11_RemoveAttachment ==
    [][(CallStep /\ last'.op = "delete_attachment" /\ last'.save \notin SaveSteps) =>
        LET kind == last'.kind
            id == last'.id
            name == last'.req.filename
            after == _load_metadata(FS')[Key(kind)]
        IN  /\ HasAttachment(kind, id, name) =>
                  /\ last'.ok /\ last'.raised = "none"
                  /\ \A i \in 1..Len(after) :
                        after[i].id = id =>
                            IndexOfAttachment(after[i].attachments, name) = 0
            /\ ~HasAttachment(kind, id, name) =>
                  /\ ~last'.ok /\ last'.raised = "none"
                  /\ UNCHANGED disk
      ]_vars

(***************************************************************************)
(* C12.  Entity delete, for both kinds: when removing the content file or  *)
(* an attachment file fails with an I/O error, or the file is already      *)
(* absent, the record is still removed and persisted and delete returns    *)
(* true.  (Calls whose save of the metadata fails are left aside.)         *)
(***************************************************************************)
C12_DeleteSwallowsRemoveErrors ==
    [][(CallStep /\ last'.op = "delete" /\ last'.save \notin SaveSteps
          /\ IndexOfId(Items(last'.kind), last'.id) # 0) =>
        /\ last'.ok /\ last'.raised = "none"
        /\ IndexOfId(_load_metadata(FS')[Key(last'.kind)], last'.id) = 0
      ]_vars

(***************************************************************************)
(* C13.  Lost update: when two mutating calls on different records run     *)
(* with their load and save steps interleaved, so that each loads the      *)
(* index before the other has saved, and both return success, the          *)
(* persisted index is the one of the two passed to save that was saved     *)
(* last: it holds the change of one call only, the record of the other is  *)
(* as it was before the calls.                                             *)
(***************************************************************************)
\* The worker's call has returned true: the save was made and did not raise.
Succeeded(w) ==
    /\ pc[w] = "idle"
    /\ loc[w].op \in {"update_note", "increment_note_view_count"}
    /\ ~loc[w].raised

\* Both workers loaded the index the store started with.
BothLoadedFirst == \A w \in Workers : loc[w].seen = TwoNotes.metadata_file.idx

NoteOf(metadata, id) == metadata.notes[IndexOfId(metadata.notes, id)]

C13_LostUpdate ==
    ((\A w \in Workers : Succeeded(w)) /\ BothLoadedFirst) =>
        /\ metadata_file.exists /\ metadata_file.full
        /\ \E w \in Workers, v \in Workers :
              /\ w # v
              /\ metadata_file.idx = loc[w].metadata
              /\ NoteOf(metadata_file.idx, WorkerNote(w))
                    # NoteOf(TwoNotes.metadata_file.idx, WorkerNote(w))
              /\ NoteOf(metadata_file.idx, WorkerNote(v))
                    = NoteOf(TwoNotes.metadata_file.idx, WorkerNote(v))

C13_Witness ==
    /\ \A w \in Workers : Succeeded(w)
    /\ BothLoadedFirst
    /\ loc["w1"].op = "update_note" /\ loc["w2"].op = "increment_note_view_count"
    /\ metadata_file.idx = loc["w2"].metadata
    /\ NoteOf(metadata_file.idx, 1).title = "t1"

(***************************************************************************)
(* C14.  Two create calls of the same kind that both run get_next_id       *)
(* before either has saved are assigned the same id and write the same     *)
(* content file; a state is reachable in which the persisted index holds   *)
(* two records of the kind with that id.                                   *)
(***************************************************************************)
C14_SameIdAllocated ==
    \A w, v \in Workers :
        (/\ w # v
         /\ loc[w].op = "create_note" /\ loc[v].op = "create_note"
         /\ metadata_file = Serialized(EmptyIndex)) =>
            /\ loc[w].note_id = loc[v].note_id
            /\ DOMAIN notes_dir \subseteq {TxtName(loc[w].note_id)}

C14_Witness ==
    /\ \A w \in Workers : pc[w] = "idle" /\ loc[w].op = "create_note" /\ ~loc[w].raised
    /\ metadata_file.exists /\ metadata_file.full
    /\ Len(metadata_file.idx.notes) = 2
    /\ metadata_file.idx.notes[1].id = metadata_file.idx.notes[2].id
    /\ metadata_file.idx.notes[1].title # metadata_file.idx.notes[2].title
    /\ DOMAIN notes_dir = {TxtName(1)}

(***************************************************************************)
(* C15.  Across any sequence of create and delete calls made one after the *)
(* other, every id create returns is strictly greater than every id create *)
(* has returned before for the kind, deleted entities included: no id is   *)
(* used twice.                                                             *)
(***************************************************************************)
C15_IdsNeverReused ==
    [][(CallStep /\ last'.op = "create" /\ last'.entity.found) =>
        \A i \in issued[last'.kind] : last'.entity.id > i
      ]_vars

(***************************************************************************)
(* C16.  increment_note_view_count(id) on an existing note raises that     *)
(* note's view_count by exactly 1 and returns true; updated_at, every      *)
(* other field of the record, every other record and all files stay as     *)
(* they were.  On an unknown id it returns false and changes nothing.      *)
(* get_note and get_all_notes report the stored view_count and write       *)
(* nothing.                                                                *)
(***************************************************************************)
C16_IncrementViewCount ==
    [][(CallStep /\ last'.op = "increment") =>
        LET notes == metadata_file.idx.notes
            i == IndexOfId(notes, last'.id)
        IN  IF i # 0
            THEN /\ last'.ok /\ last'.raised = "none"
                 /\ metadata_file' =
                       Serialized([metadata_file.idx EXCEPT
                                      !.notes[i].view_count = notes[i].view_count + 1])
                 /\ Get("note", FS', last'.id).view_count
                       = Get("note", FS, last'.id).view_count + 1
                 /\ \A c \in ListCategories :
                       LET L == List("note", FS', c)
                       IN  \A j \in 1..Len(L) :
                             L[j].view_count = NoteOf(metadata_file'.idx, L[j].id).view_count
                 /\ UNCHANGED <<temp_file, notes_dir, docs_dir, notes_uploads_dir,
                                docs_uploads_dir>>
            ELSE /\ ~last'.ok /\ last'.raised = "none"
                 /\ UNCHANGED disk
      ]_vars

C16_Witness ==
    /\ last.op = "increment" /\ last.ok
    /\ Len(metadata_file.idx.notes) = 2
    /\ NoteOf(metadata_file.idx, last.id).view_count = 1
    /\ NoteOf(metadata_file.idx, 3 - last.id).view_count = 0

(***************************************************************************)
(* C17.  Every record written by create has created_at equal to            *)
(* updated_at, however the clock behaves: get right after create returns   *)
(* an entity with created_at = updated_at.                                 *)
(***************************************************************************)
C17_CreatedEqualsUpdated ==
    (last.op = "create" /\ last.raised = "none") =>
        LET e == Get(last.kind, FS, last.id)
            m == metadata_file.idx[Key(last.kind)]
        IN  /\ e.found
            /\ e.created_at = e.updated_at
            /\ m[IndexOfId(m, last.id)].created_at = m[IndexOfId(m, last.id)].updated_at

(***************************************************************************)
(* C18.  After any sequence of calls made one after the other, none with   *)
(* an I/O failure: (1) every record of a kind has its content file         *)
(* "<id>.txt" in the kind's content directory, (2) every file in that      *)
(* directory is the content file of exactly one record of the kind, and    *)
(* (3) every file in the kind's upload directory is named by an attachment *)
(* entry of a record of the kind.                                          *)
(***************************************************************************)
C18_IndexMatchesFiles ==
    \A kind \in Kinds :
        LET recs == Records(kind)
        IN  /\ \A i \in 1..Len(recs) :
                  /\ recs[i].filename = TxtName(recs[i].id)
                  /\ recs[i].filename \in DOMAIN ContentDir(kind)
            /\ \A f \in DOMAIN ContentDir(kind) :
                  Cardinality({i \in 1..Len(recs) : recs[i].filename = f}) = 1
            /\ \A f \in DOMAIN UploadsDir(kind) :
                  \E i \in 1..Len(recs) :
                      IndexOfAttachment(recs[i].attachments, f) # 0

C18_Witness ==
    \E kind \in Kinds :
        /\ last.op = "delete_attachment" /\ last.ok /\ last.kind = kind
        /\ Len(Records(kind)) = 1
        /\ Records(kind)[1].attachments = <<>>
        /\ DOMAIN UploadsDir(kind) = {}
        /\ DOMAIN ContentDir(kind) = {TxtName(1)}

(***************************************************************************)
(* C19.  update returns whether anything changed.                          *)
(***************************************************************************)
Provided(req) == DOMAIN req \cap {"title", "category", "content"}

\* A provided value differs from the stored one.
Differs(kind, m, req) ==
    \/ "title" \in DOMAIN req /\ req.title # m.title
    \/ "category" \in DOMAIN req /\ req.category # m.category
    \/ "content" \in DOMAIN req
          /\ WriteText(req.content) # ContentDir(kind)[m.filename]

RecordOf(file, kind, id) == file.idx[Key(kind)][IndexOfId(file.idx[Key(kind)], id)]

\* The claim as made: for an existing entity, update returns true and sets
\* updated_at exactly when a provided title, category or content differs
\* from the stored value; when all provided values equal the stored ones it
\* returns false and leaves updated_at as it was.
C19_UpdateReturnsChanged ==
    [][(CallStep /\ last'.op = "update"
          /\ IndexOfId(Records(last'.kind), last'.id) # 0) =>
        LET before == RecordOf(metadata_file, last'.kind, last'.id)
            after == RecordOf(metadata_file', last'.kind, last'.id)
        IN  /\ last'.ok <=> Differs(last'.kind, before, last'.req)
            /\ ~Differs(last'.kind, before, last'.req) =>
                  after.updated_at = before.updated_at
      ]_vars

\* C19, amended.  For an existing entity, update returns true and sets
\* updated_at to the time of the call (and, for notes with an editor
\* supplied, updated_by to the editor) exactly when at least one of title,
\* category or content is provided, whether or not the provided value
\* differs from the stored one; an update with none of them provided
\* returns false and leaves the metadata and the files unchanged.
C19_UpdateReturnsProvided ==
    [][(CallStep /\ last'.op = "update"
          /\ IndexOfId(Records(last'.kind), last'.id) # 0) =>
        LET before == RecordOf(metadata_file, last'.kind, last'.id)
            after == RecordOf(metadata_file', last'.kind, last'.id)
            req == last'.req
        IN  /\ last'.raised = "none"
            /\ last'.ok <=> Provided(req) # {}
            /\ last'.ok =>
                  /\ after.updated_at = now'
                  /\ (last'.kind = "note") =>
                        after.updated_by = IF "user_id" \in DOMAIN req
                                           THEN req.user_id ELSE before.updated_by
            /\ ~last'.ok => UNCHANGED disk
      ]_vars

C19_Witness ==
    /\ last.op = "update" /\ last.ok
    /\ DOMAIN last.req = {"title"}
    /\ now = 1
    /\ \E i \in 1..Len(Records(last.kind)) :
          /\ Records(last.kind)[i].id = last.id
          /\ Records(last.kind)[i].title = last.req.title
          /\ Records(last.kind)[i].created_at = 0
          /\ Records(last.kind)[i].updated_at = 1

(***************************************************************************)
(* C20.  update applies only the provided fields: for an existing entity,  *)
(* each of title, category and content that is absent keeps its stored     *)
(* value, and the content file is not rewritten when content is absent;    *)
(* update never changes id, filename, created_at, attachments or           *)
(* view_count of the target, nor any other record or any other file; on an *)
(* unknown id it returns false without error and changes nothing.          *)
(***************************************************************************)
ContentDirOf(fs, kind) == IF kind = "note" THEN fs.notes_dir ELSE fs.docs_dir

\* dir2 is dir, but for the file of the given name.
SameBut(dir, dir2, name) ==
    /\ DOMAIN dir2 = DOMAIN dir
    /\ \A f \in DOMAIN dir : f # name => dir2[f] = dir[f]

C20_UpdateFrame ==
    [][(CallStep /\ last'.op = "update") =>
        LET kind == last'.kind
            req == last'.req
            recs == Records(kind)
            recs2 == metadata_file'.idx[Key(kind)]
            i == IndexOfId(recs, last'.id)
        IN  IF i = 0
            THEN ~last'.ok /\ last'.raised = "none" /\ UNCHANGED disk
            ELSE /\ last'.raised = "none"
                 /\ metadata_file'.exists /\ metadata_file'.full
                 /\ Len(recs2) = Len(recs)
                 /\ \A j \in 1..Len(recs) : j # i => recs2[j] = recs[j]
                 /\ metadata_file'.idx[Key(Other(kind))]
                       = metadata_file.idx[Key(Other(kind))]
                 /\ recs2[i].id = recs[i].id
                 /\ recs2[i].filename = recs[i].filename
                 /\ recs2[i].created_at = recs[i].created_at
                 /\ recs2[i].attachments = recs[i].attachments
                 /\ recs2[i].user_id = recs[i].user_id
                 /\ (kind = "note") => recs2[i].view_count = recs[i].view_count
                 /\ ("title" \notin DOMAIN req) => recs2[i].title = recs[i].title
                 /\ ("category" \notin DOMAIN req) => recs2[i].category = recs[i].category
                 /\ IF "content" \in DOMAIN req
                    THEN SameBut(ContentDirOf(FS, kind), ContentDirOf(FS', kind),
                                 recs[i].filename)
                    ELSE ContentDirOf(FS', kind) = ContentDirOf(FS, kind)
                 /\ ContentDirOf(FS', Other(kind)) = ContentDirOf(FS, Other(kind))
                 /\ UNCHANGED <<temp_file, notes_uploads_dir, docs_uploads_dir>>
      ]_vars

C20_Witness ==
    /\ last.op = "update" /\ last.ok
    /\ DOMAIN last.req = {"content"}
    /\ Len(Records(last.kind)) = 2
    /\ \E f \in DOMAIN ContentDir(last.kind) :
          /\ f # TxtName(last.id)
          /\ ContentDir(last.kind)[f] # ContentDir(last.kind)[TxtName(last.id)]

(***************************************************************************)
(* C21.  A metadata record whose content file is absent is tolerated: get  *)
(* of its id returns not-found, and each list returns exactly the other    *)
(* entities that match, those whose content file is present; neither       *)
(* raises.                                                                 *)
(***************************************************************************)
\* The record's content file is absent.
Missing(kind, m) == m.filename \notin DOMAIN ContentDir(kind)

C21_MissingContentTolerated ==
    \A kind \in Kinds :
        /\ \A i \in 1..Len(Items(kind)) :
              Missing(kind, Items(kind)[i]) => ~Get(kind, FS, Items(kind)[i].id).found
        /\ \A x \in ListCategories :
              ListsExactly(kind, List(kind, FS, x),
                  SelectSeq(Items(kind), LAMBDA m :
                      /\ ~Missing(kind, m)
                      /\ (x \in {"all", None, ""} \/ m.category = x)))

\* A delete whose save failed has left the record of note 1 without its
\* content file, next to a note whose file is present.
C21_Witness ==
    /\ Len(Items("note")) >= 2
    /\ \E i \in 1..Len(Items("note")) : Missing("note", Items("note")[i])
    /\ Len(List("note", FS, None)) = Len(Items("note")) - 1
    /\ Len(List("note", FS, None)) >= 1

(***************************************************************************)
(* C22.  The two kinds are independent when the calls are made one after   *)
(* the other: a call on a note leaves the docs sequence of the index, the  *)
(* docs content directory and the docs upload directory unchanged, and a   *)
(* call on a doc leaves those of the notes unchanged.                      *)
(***************************************************************************)
UploadsDirOf(fs, kind) ==
    IF kind = "note" THEN fs.notes_uploads_dir ELSE fs.docs_uploads_dir

\* The sequence of a kind in the metadata file.
SequenceOf(file, kind) == IF kind = "note" THEN file.idx.notes ELSE file.idx.docs

C22_KindsIndependent ==
    [][CallStep =>
        LET other == Other(last'.kind)
        IN  /\ SequenceOf(metadata_file', other) = SequenceOf(metadata_file, other)
            /\ ContentDirOf(FS', other) = ContentDirOf(FS, other)
            /\ UploadsDirOf(FS', other) = UploadsDirOf(FS, other)
      ]_vars

\* A call on a note has changed the disk of a store that holds a doc with an
\* attachment.
C22_Witness ==
    /\ last.kind = "note" /\ last.op = "create" /\ last.ok
    /\ Len(Records("doc")) >= 1
    /\ docs_uploads_dir # EmptyDir
    /\ notes_dir # EmptyDir

(***************************************************************************)
(* C23.  A mutating call whose metadata save fails has no persistent       *)
(* effect: when the save inside create, update with content, delete or     *)
(* add attachment fails, the content directories and the upload            *)
(* directories hold the files, with the contents, they held before the     *)
(* call.                                                                   *)
(***************************************************************************)
C23_FailedSaveNoEffect ==
    [][(/\ CallStep
        /\ last'.save \in SaveSteps
        /\ \/ last'.op \in {"create", "delete", "add_attachment"}
           \/ last'.op = "update" /\ "content" \in DOMAIN last'.req) =>
        UNCHANGED <<notes_dir, docs_dir, notes_uploads_dir, docs_uploads_dir>>
      ]_vars

(***************************************************************************)
(* C24.  The quota bounds the store: from a store whose total usage (the   *)
(* bytes of the upload directories and the two content directories) is at  *)
(* most the quota, every sequence of create, update, delete and attachment *)
(* calls made one after the other leaves the total usage at most the       *)
(* quota.                                                                  *)
(***************************************************************************)
C24_QuotaInvariant == get_total_storage_size(FS) <= max_storage

(***************************************************************************)
(* C25.  Write after corruption: when the metadata file has become         *)
(* unparsable while records and content files exist, the next successful   *)
(* create, of either kind, returns id 1, overwrites the content file       *)
(* "1.txt" of the kind and persists an index that holds the new record and *)
(* no other; the records of both kinds from before the corruption are in   *)
(* no index saved after it.                                                *)
(***************************************************************************)
\* The records of a kind the store held before the corruption.
FormerRecords(kind) == Stocked.metadata_file.idx[Key(kind)]

C25_CreateAfterCorruption ==
    [][CallStep =>
        /\ (/\ last'.op = "create" /\ last'.raised = "none"
            /\ metadata_file.exists /\ ~metadata_file.full) =>
              LET kind == last'.kind
                  new == SequenceOf(metadata_file', kind)
              IN  /\ last'.entity.found /\ last'.entity.id = 1
                  /\ ContentDirOf(FS', kind)[TxtName(1)] = WriteText(last'.req.content)
                  /\ metadata_file'.exists /\ metadata_file'.full
                  /\ Len(new) = 1
                  /\ new[1].id = 1 /\ new[1].title = last'.req.title
                  /\ new[1].attachments = <<>>
                  /\ SequenceOf(metadata_file', Other(kind)) = <<>>
        /\ (metadata_file'.exists /\ metadata_file'.full) =>
              \A kind \in Kinds :
                  \A i \in 1..Len(FormerRecords(kind)) :
                      \A j \in 1..Len(SequenceOf(metadata_file', kind)) :
                          SequenceOf(metadata_file', kind)[j] # FormerRecords(kind)[i]
      ]_vars

\* The first call on the corrupted store was a create of a note: it came
\* back with id 1, the file "1.txt" of the former note 1 holds the new
\* content, and the former doc's files are on disk with no record.
C25_Witness ==
    /\ steps = 1
    /\ last.op = "create" /\ last.kind = "note" /\ last.ok /\ last.id = 1
    /\ notes_dir[TxtName(1)] # Stocked.notes_dir[TxtName(1)]
    /\ Len(Records("note")) = 1 /\ Records("doc") = <<>>
    /\ TxtName(1) \in DOMAIN docs_dir
    /\ docs_uploads_dir # EmptyDir /\ notes_uploads_dir # EmptyDir

(***************************************************************************)
(* C26.  Timestamps: under a clock that does not run backwards, in every   *)
(* state reached by calls made one after the other every metadata record   *)
(* has updated_at >= created_at, no call changes the created_at of a       *)
(* record, and no call (update, add or remove attachment, increment view   *)
(* count) decreases the updated_at of a record.                            *)
(***************************************************************************)
C26_Timestamps ==
    [][CallStep =>
        \A kind \in Kinds :
            LET before == SequenceOf(metadata_file, kind)
                after == SequenceOf(metadata_file', kind)
            IN  /\ \A j \in 1..Len(after) : after[j].updated_at >= after[j].created_at
                /\ \A i \in 1..Len(before) : \A j \in 1..Len(after) :
                      before[i].id = after[j].id =>
                          /\ after[j].created_at = before[i].created_at
                          /\ after[j].updated_at >= before[i].updated_at
      ]_vars

\* A call has moved the updated_at of a record past its created_at.
C26_Witness ==
    /\ last.op \in {"update", "add_attachment", "delete_attachment"} /\ last.ok
    /\ \E i \in 1..Len(Records(last.kind)) :
          /\ Records(last.kind)[i].id = last.id
          /\ Records(last.kind)[i].created_at = 0
          /\ Records(last.kind)[i].updated_at = 1


====
